---- MODULE Spec2Model ----
(***************************************************************************)
(* The FAISS vector store of research-board (src/app/vector_store.py), the *)
(* startup hook that prepares it (src/app/main.py, lifespan) and the       *)
(* relational embeddings table the hook reads (src/app/crud.py).           *)
(*                                                                         *)
(* Vectors are sequences of small integers (exactly representable as       *)
(* float32, so np.array(..., dtype=float32) keeps them as they are).  The  *)
(* deployment's dimension is 768 (vector_store.py:60); the model scales it *)
(* down to `dimension`.                                                    *)
(*                                                                         *)
(* The index is faiss.IndexFlatL2: a list of vectors, slot s (zero-based)  *)
(* being element s+1 of `index`.  Every stored vector carries a history    *)
(* field `src`, the page id it was supplied with; the program never reads  *)
(* it.  `persisted_map` is a history variable too: the identifier map as   *)
(* it was when the artifact was last written.                              *)
(***************************************************************************)
EXTENDS Integers, Sequences, FiniteSets, TLC

VARIABLES
    index,          \* FaissIndex.index, vector_store.py:9
    id_map,         \* FaissIndex.id_map, slot -> page id, vector_store.py:10
    next_faiss_id,  \* FaissIndex.next_faiss_id, vector_store.py:11
    file,           \* the artifact at index_path: <<>>, <<the vectors written>>
                    \* or, when it cannot be read back, <<(any), "damaged">>
    persisted_map,  \* history: id_map when the artifact was last written
    db,             \* the rows of the embeddings table, models.py:79-89
    proc,           \* "imported", "ready" (the hook returned) or "failed" (it raised)
    last,           \* the last call and whether it raised
    calls           \* the calls of add in flight, one per thread, and whether
                    \* two of them have been in flight together

vars == <<index, id_map, next_faiss_id, file, persisted_map, db, proc, last, calls>>

(* ------------------------------ bounds --------------------------------- *)

dimension == 2

MaxVectors == 2

MaxRows == 2

ScenarioSize == 3

PageIds == {1, 2}

TopKs == {-1, 0, 1, 2, 4}

(* the zero vector of length n *)
Zero(n) == [i \in 1..n |-> 0]

(* the unit vector of length n along axis a *)
Unit(n, a) == [i \in 1..n |-> IF i = a THEN 1 ELSE 0]

(* the vectors handed to add and stored in the embeddings table: two unit
   vectors of the right width, one vector too short and one too long *)
ValidVectors == {Unit(dimension, 1), Unit(dimension, 2)}

BadVectors == {Zero(dimension - 1), Zero(dimension + 1)}

Vectors == ValidVectors \cup BadVectors

(* three vectors in hundredths: a unit vector, one that differs from it by
   0.01 along another axis, and a unit vector orthogonal to the first *)
ScenarioBase == [i \in 1..dimension |-> IF i = 1 THEN 100 ELSE 0]

ScenarioNear == [i \in 1..dimension |-> IF i = 1 THEN 100 ELSE IF i = 2 THEN 1 ELSE 0]

ScenarioOrth == [i \in 1..dimension |-> IF i = 2 THEN 100 ELSE 0]

ScenarioVectors == {ScenarioBase, ScenarioNear, ScenarioOrth}

ScenarioIds == {1, 2, 3}

(* the query vectors: the origin is as far from one unit vector as from the
   other *)
Queries == Vectors \cup {Zero(dimension)}

(* --------------------------- faiss.IndexFlatL2 ------------------------- *)

RECURSIVE SumSq(_, _, _)
SumSq(x, y, i) ==
    IF i = 0 THEN 0 ELSE (x[i] - y[i]) * (x[i] - y[i]) + SumSq(x, y, i - 1)

RECURSIVE Dot(_, _, _)
Dot(x, y, i) == IF i = 0 THEN 0 ELSE x[i] * y[i] + Dot(x, y, i - 1)

(* the metric of IndexFlatIP in place of IndexFlatL2's: the larger the inner
   product, the nearer *)
NegInnerProduct(x, y) == 0 - Dot(x, y, Len(x))

(* squared Euclidean distance, the metric of IndexFlatL2 *)
L2sqr(x, y) == SumSq(x, y, Len(x))

(* the distance of the query to every stored vector (the flat scan) *)
Distances(xb, q) == [i \in 1..Len(xb) |-> L2sqr(q, xb[i].vec)]

(* the same scan with a later vector at an equal distance put first *)
RECURSIVE ScannedTiesLast(_, _)
ScannedTiesLast(d, n) ==
    IF n = 0 THEN <<>>
    ELSE LET s == ScannedTiesLast(d, n - 1)
             p == Cardinality({e \in 1..(n - 1) : d[e] < d[n]})
         IN SubSeq(s, 1, p) \o <<n>> \o SubSeq(s, p + 1, Len(s))

(* the sequence s with n put in after its first p elements *)
PutAfter(s, p, n) == SubSeq(s, 1, p) \o <<n>> \o SubSeq(s, p + 1, Len(s))

(* The library's scan (not part of the repository; IndexFlatL2 with one query)
   visits the slots in storage order and keeps the nearest ones; a vector
   displaces a kept one only when it is strictly nearer, and the kept ones are
   reported by ascending (distance, label).  Scanned(d, n) is the order of
   the first n slots (one-based positions in xb). *)
RECURSIVE Scanned(_, _)
Scanned(d, n) ==
    IF n = 0 THEN <<>>
    ELSE PutAfter(Scanned(d, n - 1), Cardinality({e \in 1..(n - 1) : d[e] <= d[n]}), n)

(* k (label, distance) pairs from the distances d and the order s of the slots *)
Labelled(d, s, k) ==
    [r \in 1..k |->
        IF r <= Len(s)
        THEN [idx |-> s[r] - 1, dist |-> d[s[r]]]
        ELSE [idx |-> -1, dist |-> "FLT_MAX"]]

(* index.search(q, k) for one query: k (label, distance) pairs, the nearest
   first, padded with label -1 when the index holds fewer than k vectors *)
IndexSearch(xb, q, k) ==
    Labelled(Distances(xb, q), Scanned(Distances(xb, q), Len(xb)), k)

(* index.add / index.search assert the width of their argument; search
   asserts k > 0 as well *)
IndexAccepts(v) == Len(v) = dimension

(* ------------------------------ FaissIndex ----------------------------- *)

(* what the last call was and whether it raised; page_id and vec are the
   arguments add was called with *)
NoResult == [op |-> "none", err |-> FALSE, page_id |-> 0, vec |-> <<>>]

Result(op, err) == [NoResult EXCEPT !.op = op, !.err = err]

(* self.id_map[key] = page_id *)
MapPut(m, key, page_id) ==
    [s \in DOMAIN m \cup {key} |-> IF s = key THEN page_id ELSE m[s]]

EmptyMap == [s \in {} |-> 0]

(* add() without its last line, the counter step *)
AddToNoIncrement(st, page_id, vector) ==
    IF ~IndexAccepts(vector)
    THEN [st EXCEPT !.err = TRUE]
    ELSE [index |-> Append(st.index, [vec |-> vector, src |-> page_id]),
          id_map |-> MapPut(st.id_map, st.next_faiss_id, page_id),
          next_faiss_id |-> st.next_faiss_id,
          err |-> FALSE]

(* add() writing the map entry and stepping the counter before the append *)
AddToMapFirst(st, page_id, vector) ==
    IF ~IndexAccepts(vector)
    THEN [st EXCEPT !.id_map = MapPut(st.id_map, st.next_faiss_id, page_id),
                    !.next_faiss_id = st.next_faiss_id + 1,
                    !.err = TRUE]
    ELSE [index |-> Append(st.index, [vec |-> vector, src |-> page_id]),
          id_map |-> MapPut(st.id_map, st.next_faiss_id, page_id),
          next_faiss_id |-> st.next_faiss_id + 1,
          err |-> FALSE]

(* the state add() leaves: a record [index, id_map, next_faiss_id, err] *)
AddTo(st, page_id, vector) ==
    IF ~IndexAccepts(vector)
    THEN [st EXCEPT !.err = TRUE]
    ELSE [index |-> Append(st.index, [vec |-> vector, src |-> page_id]),
          id_map |-> MapPut(st.id_map, st.next_faiss_id, page_id),
          next_faiss_id |-> st.next_faiss_id + 1,
          err |-> FALSE]

Store == [index |-> index, id_map |-> id_map, next_faiss_id |-> next_faiss_id,
          err |-> FALSE]

(* the (page_id, distance) pairs search() returns and, beside them, the slots
   they came from *)
(* search() looking the label up one key too far *)
RECURSIVE CollectOffByOne(_, _, _)
CollectOffByOne(m, hits, i) ==
    IF i > Len(hits) THEN <<>>
    ELSE IF hits[i].idx # -1 /\ (hits[i].idx + 1) \in DOMAIN m
         THEN <<[page_id |-> m[hits[i].idx + 1], dist |-> hits[i].dist,
                 slot |-> hits[i].idx]>> \o CollectOffByOne(m, hits, i + 1)
         ELSE CollectOffByOne(m, hits, i + 1)

(* search() leaving its loop at the first label without a map entry (break
   for continue) *)
RECURSIVE CollectUntilOrphan(_, _, _)
CollectUntilOrphan(m, hits, i) ==
    IF i > Len(hits) THEN <<>>
    ELSE IF hits[i].idx # -1 /\ hits[i].idx \in DOMAIN m
         THEN <<[page_id |-> m[hits[i].idx], dist |-> hits[i].dist,
                 slot |-> hits[i].idx]>> \o CollectUntilOrphan(m, hits, i + 1)
         ELSE <<>>

RECURSIVE Collect(_, _, _)
Collect(m, hits, i) ==
    IF i > Len(hits) THEN <<>>
    ELSE IF hits[i].idx # -1 /\ hits[i].idx \in DOMAIN m
         THEN <<[page_id |-> m[hits[i].idx], dist |-> hits[i].dist,
                 slot |-> hits[i].idx]>> \o Collect(m, hits, i + 1)
         ELSE Collect(m, hits, i + 1)

SearchHits(xb, m, q, k) == Collect(m, IndexSearch(xb, q, k), 1)

SearchFails(q, k) == ~IndexAccepts(q) \/ k <= 0

(* the list search() returns *)
Pairs(hits) == [i \in 1..Len(hits) |-> <<hits[i].page_id, hits[i].dist>>]

(* ------------------------------- actions ------------------------------- *)

(* the threads that may be inside add at once *)
Threads == {1, 2}

(* where a thread is in add: "idle", or before the statement it runs next,
   "append" (line 34), "map" (line 35), "read" and "write" (the two halves of
   line 36's +=); tmp is the counter value line 36 has read *)
Idle == [pc |-> "idle", page_id |-> 0, vec |-> <<>>, tmp |-> 0]

NoCalls == [th |-> [t \in Threads |-> Idle], overlapped |-> FALSE]

Up == proc \in {"imported", "ready"}

Init ==
    /\ index = <<>>
    /\ id_map = EmptyMap
    /\ next_faiss_id = 0
    /\ file = <<>>
    /\ persisted_map = EmptyMap
    /\ db = <<>>
    /\ proc = "imported"
    /\ last = NoResult
    /\ calls = NoCalls

(* a new process imports app.vector_store: FaissIndex.__init__ *)
init ==
    /\ index' = <<>>
    /\ id_map' = EmptyMap
    /\ next_faiss_id' = 0
    /\ proc' = "imported"
    /\ last' = Result("init", FALSE)
    /\ calls' = NoCalls
    /\ UNCHANGED <<file, persisted_map, db>>

add ==
    /\ Up
    /\ Len(index) < MaxVectors /\ next_faiss_id < MaxVectors
    /\ \E page_id \in PageIds, vector \in Vectors :
        LET st == AddTo(Store, page_id, vector) IN
        /\ index' = st.index
        /\ id_map' = st.id_map
        /\ next_faiss_id' = st.next_faiss_id
        /\ last' = [Result("add", st.err) EXCEPT !.page_id = page_id, !.vec = vector]
    /\ UNCHANGED <<file, persisted_map, db, proc, calls>>

(* ---- add() statement by statement, for callers the host does not serialize *)

InFlight == {t \in Threads : calls.th[t].pc # "idle"}

(* thread t moves on to pc *)
Goes(t, pc) == [calls EXCEPT !.th[t].pc = pc]

(* thread t enters add(page_id, vector) *)
add_call ==
    /\ Up
    /\ \E t \in Threads, page_id \in PageIds, vector \in Vectors :
          /\ calls.th[t].pc = "idle"
          /\ Len(index) + Cardinality({u \in Threads : calls.th[u].pc = "append"}) < MaxVectors
          /\ calls' = [th |-> [calls.th EXCEPT
                                  ![t] = [pc |-> "append", page_id |-> page_id,
                                          vec |-> vector, tmp |-> 0]],
                       overlapped |-> calls.overlapped \/ InFlight # {}]
    /\ UNCHANGED <<index, id_map, next_faiss_id, file, persisted_map, db, proc, last>>

(* line 34, self.index.add(vec): raises out of add for a wrong width *)
add_append ==
    /\ \E t \in Threads :
          LET c == calls.th[t] IN
          /\ c.pc = "append"
          /\ IF IndexAccepts(c.vec)
             THEN /\ index' = Append(index, [vec |-> c.vec, src |-> c.page_id])
                  /\ calls' = Goes(t, "map")
                  /\ last' = last
             ELSE /\ index' = index
                  /\ calls' = [calls EXCEPT !.th[t] = Idle]
                  /\ last' = [Result("add", TRUE) EXCEPT !.page_id = c.page_id, !.vec = c.vec]
    /\ UNCHANGED <<id_map, next_faiss_id, file, persisted_map, db, proc>>

(* line 35, self.id_map[self.next_faiss_id] = page_id *)
add_map ==
    /\ \E t \in Threads :
          /\ calls.th[t].pc = "map"
          /\ id_map' = MapPut(id_map, next_faiss_id, calls.th[t].page_id)
          /\ calls' = Goes(t, "read")
    /\ UNCHANGED <<index, next_faiss_id, file, persisted_map, db, proc, last>>

(* line 36, self.next_faiss_id += 1, first half: the attribute is loaded *)
add_read ==
    /\ \E t \in Threads :
          /\ calls.th[t].pc = "read"
          /\ calls' = [calls EXCEPT !.th[t].pc = "write", !.th[t].tmp = next_faiss_id]
    /\ UNCHANGED <<index, id_map, next_faiss_id, file, persisted_map, db, proc, last>>

(* line 36 storing back the value it loaded *)
add_write_unstepped ==
    /\ \E t \in Threads :
          LET c == calls.th[t] IN
          /\ c.pc = "write"
          /\ next_faiss_id' = c.tmp
          /\ calls' = [calls EXCEPT !.th[t] = Idle]
          /\ last' = [Result("add", FALSE) EXCEPT !.page_id = c.page_id, !.vec = c.vec]
    /\ UNCHANGED <<index, id_map, file, persisted_map, db, proc>>

(* line 36, second half: the sum is stored, and add returns *)
add_write ==
    /\ \E t \in Threads :
          LET c == calls.th[t] IN
          /\ c.pc = "write"
          /\ next_faiss_id' = c.tmp + 1
          /\ calls' = [calls EXCEPT !.th[t] = Idle]
          /\ last' = [Result("add", FALSE) EXCEPT !.page_id = c.page_id, !.vec = c.vec]
    /\ UNCHANGED <<index, id_map, file, persisted_map, db, proc>>

(* add() called with the vectors of the three-vector scenario *)
add_scenario ==
    /\ Up
    /\ Len(index) < ScenarioSize
    /\ \E page_id \in ScenarioIds, vector \in ScenarioVectors :
        LET st == AddTo(Store, page_id, vector) IN
        /\ index' = st.index
        /\ id_map' = st.id_map
        /\ next_faiss_id' = st.next_faiss_id
        /\ last' = [Result("add", st.err) EXCEPT !.page_id = page_id, !.vec = vector]
    /\ UNCHANGED <<file, persisted_map, db, proc, calls>>

(* search() taking each entry it reports out of the map (pop for get) *)
search_pop ==
    /\ Up
    /\ \E c \in {a \in Queries \X TopKs : ~SearchFails(a[1], a[2])} :
          LET h == SearchHits(index, id_map, c[1], c[2])
              gone == {h[i].slot : i \in 1..Len(h)}
          IN id_map' = [s \in DOMAIN id_map \ gone |-> id_map[s]]
    /\ last' = Result("search", FALSE)
    /\ UNCHANGED <<index, next_faiss_id, file, persisted_map, db, proc, calls>>

(* search() changes nothing; it raises when SearchFails(query_vector, top_k)
   and otherwise returns Pairs(SearchHits(index, id_map, query_vector, top_k))
   of the state it is called in *)
search ==
    /\ Up
    /\ last' = Result("search", FALSE)
    /\ UNCHANGED <<index, id_map, next_faiss_id, file, persisted_map, db, proc, calls>>

(* faiss.write_index(self.index, self.index_path): the vectors, not the map *)
save_index ==
    /\ Up
    /\ file' = <<index>>
    /\ persisted_map' = id_map
    /\ last' = Result("save_index", FALSE)
    /\ UNCHANGED <<index, id_map, next_faiss_id, db, proc, calls>>

(* faiss.read_index(path) returns an index for a file that write_index wrote
   and raises for a path with no file or with a file it cannot read *)
Readable(f) == Len(f) = 1

(* self.index = faiss.read_index(self.index_path); the assignment is not
   reached when read_index raises *)
load_index ==
    /\ Up
    /\ index' = IF Readable(file) THEN file[1] ELSE index
    /\ last' = Result("load_index", ~Readable(file))
    /\ UNCHANGED <<id_map, next_faiss_id, file, persisted_map, db, proc, calls>>

(* the rows of the embeddings table build_from_db keeps *)
RECURSIVE ValidRows(_)
ValidRows(rows) ==
    IF rows = <<>> THEN <<>>
    ELSE IF Len(Head(rows).embedding) # dimension THEN ValidRows(Tail(rows))
         ELSE <<Head(rows)>> \o ValidRows(Tail(rows))

(* the loop of build_from_db: one map entry and one counter step per kept row *)
RECURSIVE MapRows(_, _, _)
MapRows(m, next, rows) ==
    IF rows = <<>> THEN m
    ELSE MapRows(MapPut(m, next, Head(rows).page_id), next + 1, Tail(rows))

Stored(rows) == [i \in 1..Len(rows) |-> [vec |-> rows[i].embedding, src |-> rows[i].page_id]]

build_from_db ==
    /\ Up
    /\ LET kept == ValidRows(db) IN
        /\ Len(index) + Len(kept) <= MaxVectors
        /\ next_faiss_id + Len(kept) <= MaxVectors
        /\ index' = index \o Stored(kept)
        /\ id_map' = MapRows(id_map, next_faiss_id, kept)
        /\ next_faiss_id' = next_faiss_id + Len(kept)
    /\ last' = Result("build_from_db", FALSE)
    /\ UNCHANGED <<file, persisted_map, db, proc, calls>>

(* crud.get_all_embeddings(session): every (page_id, vector) pair of the
   embeddings table, in row order *)
get_all_embeddings(rows) == [i \in 1..Len(rows) |-> <<rows[i].page_id, rows[i].embedding>>]

(* for page_id, vector in all_embeddings: faiss_index.add(page_id, vector);
   the first add that raises ends the loop *)
RECURSIVE AddAll(_, _)
AddAll(st, pairs) ==
    IF pairs = <<>> \/ st.err THEN st
    ELSE AddAll(AddTo(st, Head(pairs)[1], Head(pairs)[2]), Tail(pairs))

(* the startup hook where the artifact exists: main.py:44-46 *)
RestorePath ==
    /\ file # <<>>
    /\ index' = IF Readable(file) THEN file[1] ELSE index
    /\ proc' = IF Readable(file) THEN "ready" ELSE "failed"
    /\ last' = Result("lifespan", ~Readable(file))
    /\ UNCHANGED <<id_map, next_faiss_id, file, persisted_map, db, calls>>

(* the startup hook where there is no artifact and the table holds
   embeddings: main.py:47-55 *)
RebuildPath ==
    /\ file = <<>>
    /\ get_all_embeddings(db) # <<>>
    /\ LET st == AddAll([Store EXCEPT !.index = <<>>], get_all_embeddings(db)) IN
        /\ st.next_faiss_id <= MaxVectors
        /\ index' = st.index
        /\ id_map' = st.id_map
        /\ next_faiss_id' = st.next_faiss_id
        /\ file' = IF st.err THEN file ELSE <<st.index>>
        /\ persisted_map' = IF st.err THEN persisted_map ELSE st.id_map
        /\ proc' = IF st.err THEN "failed" ELSE "ready"
        /\ last' = Result("lifespan", st.err)
    /\ UNCHANGED <<db, calls>>

(* the startup hook where there is no artifact and the table holds no
   embedding: main.py:56-57 *)
EmptyPath ==
    /\ file = <<>>
    /\ get_all_embeddings(db) = <<>>
    /\ proc' = "ready"
    /\ last' = Result("lifespan", FALSE)
    /\ UNCHANGED <<index, id_map, next_faiss_id, file, persisted_map, db, calls>>

(* the startup hook of a process that has just imported the store *)
lifespan_load == proc = "imported" /\ RestorePath

lifespan_build == proc = "imported" /\ RebuildPath

lifespan_empty == proc = "imported" /\ EmptyPath

lifespan == lifespan_load \/ lifespan_build \/ lifespan_empty

(* the startup hook entered again in a process that has run it before, the
   store being the module's one faiss_index *)
lifespan_again ==
    /\ proc # "imported"
    /\ last.op = "lifespan"
    /\ (RestorePath \/ RebuildPath \/ EmptyPath)

(* the rebuild path when faiss.write_index raises in save_index (the disk is
   full, the directory is missing or not writable): every pair was added, the
   exception leaves the hook, and the artifact is absent or cut short *)
lifespan_build_unsaved ==
    /\ proc = "imported"
    /\ file = <<>>
    /\ get_all_embeddings(db) # <<>>
    /\ LET st == AddAll([Store EXCEPT !.index = <<>>], get_all_embeddings(db)) IN
        /\ ~st.err
        /\ st.next_faiss_id <= MaxVectors
        /\ index' = st.index
        /\ id_map' = st.id_map
        /\ next_faiss_id' = st.next_faiss_id
        /\ file' \in {<<>>, <<st.index, "damaged">>}
    /\ proc' = "failed"
    /\ last' = Result("lifespan", TRUE)
    /\ UNCHANGED <<persisted_map, db, calls>>

(* crud.add_embedding, reached from POST /pages/{page_id}/embedding: a row of
   the embeddings table, and nothing else *)
add_embedding ==
    /\ proc = "ready"
    /\ Len(db) < MaxRows
    /\ \E page_id \in PageIds, vector \in Vectors :
        db' = Append(db, [page_id |-> page_id, embedding |-> vector])
    /\ last' = Result("add_embedding", FALSE)
    /\ UNCHANGED <<index, id_map, next_faiss_id, file, persisted_map, proc, calls>>

(* np.dot(q, e) / (norm(q) * norm(e)), kept exact as a fraction of integers
   that orders as the cosine does: sign(dot) * dot^2 over |q|^2 * |e|^2; 0
   when either norm is 0 *)
Similarity(q, e) ==
    LET d == Dot(q, e, Len(q))
        nq == Dot(q, q, Len(q))
        ne == Dot(e, e, Len(e))
    IN IF nq = 0 \/ ne = 0 THEN [num |-> 0, den |-> 1]
       ELSE [num |-> IF d < 0 THEN 0 - d * d ELSE d * d, den |-> nq * ne]

(* similarity a is larger than similarity b *)
Above(a, b) == a.num * b.den > b.num * a.den

(* results.sort(key=similarity, reverse=True): the rows by descending
   similarity, equal ones in table order (the sort is stable) *)
BySimilarity(rows, q) ==
    LET sim == [j \in 1..Len(rows) |-> Similarity(q, rows[j].embedding)]
        place(j) == 1 + Cardinality({i \in 1..Len(rows) : Above(sim[i], sim[j])})
                      + Cardinality({i \in 1..(j - 1) :
                                        ~Above(sim[i], sim[j]) /\ ~Above(sim[j], sim[i])})
    IN [p \in 1..Len(rows) |-> CHOOSE j \in 1..Len(rows) : place(j) = p]

(* results[:top_k] keeps top_k elements, and all but the last -top_k for a
   negative top_k *)
SliceLen(n, top_k) ==
    IF top_k >= 0 THEN (IF top_k < n THEN top_k ELSE n)
    ELSE (IF n + top_k > 0 THEN n + top_k ELSE 0)

(* np.dot raises for a row whose vector is not as long as the query *)
SemanticSearchFails(rows, q) ==
    \E j \in 1..Len(rows) : Len(rows[j].embedding) # Len(q)

(* crud.semantic_search(db, query_vector, top_k=top_k): the page ids of the
   pairs it returns *)
crud_semantic_search(rows, q, top_k) ==
    [r \in 1..SliceLen(Len(rows), top_k) |-> rows[BySimilarity(rows, q)[r]].page_id]

(* POST /search/semantic with a query embedding of the right length: reads
   the table, changes nothing *)
semantic_search ==
    /\ proc = "ready"
    /\ last' = Result("semantic_search", FALSE)
    /\ UNCHANGED <<index, id_map, next_faiss_id, file, persisted_map, db, proc, calls>>

(* the parameters of crud.create_page (crud.py:39) and the keywords
   collect_content calls it with (routes.py:382); a call with a keyword the
   function does not take raises TypeError *)
create_page_params == {"db", "page_data"}

collect_keywords == {"db", "page_data", "embedding"}

(* POST /collect: get_embedding raises when the provider fails; otherwise
   create_page is called inside try/except, and every exception ends in a 500
   response.  The page is stored only when create_page returns; last.page_id
   is the id of the page stored, 0 when none was, last.vec the embedding the
   provider returned. *)
collect_content ==
    /\ proc = "ready"
    /\ \E provider_ok \in BOOLEAN, embedding \in Vectors, page_id \in PageIds :
          LET raised == ~provider_ok \/ ~(collect_keywords \subseteq create_page_params)
          IN last' = [Result("collect_content", raised) EXCEPT
                         !.page_id = IF raised THEN 0 ELSE page_id,
                         !.vec = IF provider_ok THEN embedding ELSE <<>>]
    /\ UNCHANGED <<index, id_map, next_faiss_id, file, persisted_map, db, proc, calls>>

(* the artifact stops being readable: a write cut short, a file of another
   format, or one the process may not open *)
damage ==
    /\ Readable(file)
    /\ file' = <<file[1], "damaged">>
    /\ last' = Result("damage", FALSE)
    /\ UNCHANGED <<index, id_map, next_faiss_id, persisted_map, db, proc, calls>>

(* what the application does: it starts, runs the startup hook and stores
   embeddings in the table *)
NextApp == init \/ lifespan_load \/ lifespan_build \/ lifespan_empty \/ add_embedding

SpecApp == Init /\ [][NextApp]_vars

(* the application on a disk that may refuse the artifact *)
NextDisk == NextApp \/ lifespan_build_unsaved

SpecDisk == Init /\ [][NextDisk]_vars

(* the application with its semantic search endpoint *)
NextSemantic == NextApp \/ semantic_search

SpecSemantic == Init /\ [][NextSemantic]_vars

(* the application with the extension's endpoint *)
NextCollect == NextApp \/ collect_content

SpecCollect == Init /\ [][NextCollect]_vars

(* the application with an artifact that may become unreadable between runs *)
NextRestore == NextApp \/ damage

SpecRestore == Init /\ [][NextRestore]_vars

(* the rows an embeddings table can hold: add_embedding stores any page id
   with a vector of any length *)
Rows == [page_id : PageIds, embedding : Vectors]

Tables == UNION {[1..n -> Rows] : n \in 0..MaxRows}

(* a process started on a table that earlier runs have filled, no artifact *)
InitBuild ==
    /\ index = <<>>
    /\ id_map = EmptyMap
    /\ next_faiss_id = 0
    /\ file = <<>>
    /\ persisted_map = EmptyMap
    /\ db \in Tables
    /\ proc = "imported"
    /\ last = NoResult
    /\ calls = NoCalls

(* the two ways the index is built from the table: build_from_db and the
   loop of the startup hook *)
NextBuild == init \/ build_from_db \/ lifespan_load \/ lifespan_build \/ lifespan_empty

SpecBuild == InitBuild /\ [][NextBuild]_vars

(* one process: a freshly constructed store that is added to, searched and
   persisted, never restored *)
NextAdd == add \/ search \/ save_index

SpecAdd == Init /\ [][NextAdd]_vars

(* one process using the whole interface of a freshly constructed store; its
   slot counter then counts the insertions made, and the index never holds
   more vectors than that *)
NextOne == add \/ search \/ save_index \/ load_index

SpecOne == Init /\ [][NextOne]_vars

(* a process started where an earlier run's rebuild left the artifact: the
   table holds rows of the right length, the artifact their vectors *)
InitServe ==
    /\ index = <<>>
    /\ id_map = EmptyMap
    /\ next_faiss_id = 0
    /\ db \in {t \in Tables : t # <<>> /\ ValidRows(t) = t}
    /\ file = <<Stored(db)>>
    /\ persisted_map = MapRows(EmptyMap, 0, db)
    /\ proc = "imported"
    /\ last = NoResult
    /\ calls = NoCalls

(* that process restores at startup, and its store is added to and searched *)
NextServe == lifespan_load \/ add \/ search

SpecServe == InitServe /\ [][NextServe]_vars

(* processes that run the startup hook and then run it once more *)
NextTwice == init \/ lifespan_load \/ lifespan_build \/ lifespan_empty \/ lifespan_again

SpecTwice == InitBuild /\ [][NextTwice]_vars

(* a freshly constructed store filled with the scenario's vectors and searched *)
NextScenario == add_scenario \/ search

SpecScenario == Init /\ [][NextScenario]_vars

(* two threads of one process calling add with nothing to serialize them *)
NextRace == add_call \/ add_append \/ add_map \/ add_read \/ add_write

SpecRace == Init /\ [][NextRace]_vars

(* the store's interface used by one process after another *)
Next == init \/ add \/ search \/ save_index \/ load_index

Spec == Init /\ [][Next]_vars

(* the application and the store's interface together *)
NextAll == NextApp \/ add \/ search \/ save_index \/ load_index \/ build_from_db

SpecAll == Init /\ [][NextAll]_vars

(* ------------------------------ properties ----------------------------- *)

(* what search(q, k) returns in the current state, with the slot of each pair *)
Hits(q, k) == SearchHits(index, id_map, q, k)

(* the calls of search that do not raise *)
Askable == {c \in Queries \X TopKs : ~SearchFails(c[1], c[2])}

MapSize == Cardinality(DOMAIN id_map)

Min(a, b) == IF a < b THEN a ELSE b

(* C1: after every completed operation the identifier map has as many entries
   as the index has vectors. *)
C1_MapSizeIsVectorCount == proc # "failed" => MapSize = Len(index)

(* C2: from a freshly constructed store, every successful add grows the index
   and the identifier map by one entry each, and leaves them the same size. *)
C2_AddGrowsBothByOne ==
    [][last'.op = "add" /\ ~last'.err =>
          /\ Len(index') = Len(index) + 1
          /\ Cardinality(DOMAIN id_map') = MapSize + 1
          /\ Cardinality(DOMAIN id_map') = Len(index')]_vars

C2_Witness ==
    /\ last.op = "add" /\ ~last.err
    /\ Len(index) = 2 /\ MapSize = 2

(* C3: add with a vector of the wrong length raises and leaves the index, the
   identifier map and the slot counter as they were; the process stays up. *)
C3_WrongLengthRejected ==
    [][last'.op = "add" /\ Len(last'.vec) # dimension =>
          /\ last'.err
          /\ index' = index
          /\ id_map' = id_map
          /\ next_faiss_id' = next_faiss_id
          /\ proc' = proc]_vars

C3_Witness ==
    /\ last.op = "add" /\ last.err /\ Len(last.vec) # dimension
    /\ Len(index) = 1 /\ MapSize = 1 /\ next_faiss_id = 1

(* C4: every pair search returns carries the page id that was supplied with the
   stored vector whose distance it reports. *)
C4_ResultCarriesSuppliedId ==
    last.op = "search" =>
        \A c \in Askable :
            \A i \in 1..Len(Hits(c[1], c[2])) :
                Hits(c[1], c[2])[i].page_id = index[Hits(c[1], c[2])[i].slot + 1].src

(* the rows of the embeddings table that the index holds, bound to page_id *)
IndexedAs(page_id, v) ==
    {i \in 1..Len(index) :
        /\ index[i].vec = v
        /\ (i - 1) \in DOMAIN id_map
        /\ id_map[i - 1] = page_id}

RowsOf(page_id, v) ==
    {j \in 1..Len(db) : db[j].page_id = page_id /\ db[j].embedding = v}

(* C5: once the startup hook has reached READY, the index holds exactly one
   vector for each valid-dimension row of the embeddings table, bound to that
   row's page id. *)
C5_ReadyIndexMatchesTable ==
    last.op = "lifespan" /\ proc = "ready" =>
        /\ Len(index) = Len(ValidRows(db))
        /\ \A page_id \in PageIds, v \in ValidVectors :
              Cardinality(IndexedAs(page_id, v)) = Cardinality(RowsOf(page_id, v))

(* the ids of the pairs, in order *)
Ids(hits) == [i \in 1..Len(hits) |-> hits[i].page_id]

(* C6: after persist and then restore, in the same or in a new process, every
   search gives the ids, in order, that it gave when the index was persisted. *)
C6_RestoreKeepsResults ==
    last.op = "load_index" /\ ~last.err =>
        \A c \in Askable :
            Ids(Hits(c[1], c[2])) = Ids(SearchHits(file[1], persisted_map, c[1], c[2]))

(* C7: search with top_k > 0 returns exactly min(top_k, N) pairs, N the number
   of vectors in the index. *)
C7_ReturnsMinOfTopKAndCount ==
    last.op = "search" =>
        \A c \in Askable : Len(Hits(c[1], c[2])) = Min(c[2], Len(index))

(* C8: the pairs search returns are in ascending order of distance, and of two
   pairs at the same distance the one from the earlier slot comes first. *)
C8_AscendingTiesBySlot ==
    last.op = "search" =>
        \A c \in Askable :
            LET h == Hits(c[1], c[2]) IN
            \A i, j \in 1..Len(h) :
                i < j => \/ h[i].dist < h[j].dist
                         \/ h[i].dist = h[j].dist /\ h[i].slot < h[j].slot

C8_Witness ==
    /\ last.op = "search"
    /\ \E c \in Askable :
          LET h == Hits(c[1], c[2]) IN
          /\ Len(h) = 2
          /\ h[1].dist = h[2].dist
          /\ index[1].vec # index[2].vec

(* C9: each reported distance is the squared Euclidean distance from the query
   to the vector of that slot, and no stored vector that is left out is nearer
   to the query than one that is returned. *)
C9_SearchIsExact ==
    last.op = "search" =>
        \A c \in Askable :
            LET h == Hits(c[1], c[2]) IN
            /\ \A i \in 1..Len(h) : h[i].dist = L2sqr(c[1], index[h[i].slot + 1].vec)
            /\ \A s \in 1..Len(index) :
                  (\A i \in 1..Len(h) : h[i].slot # s - 1) =>
                      \A i \in 1..Len(h) : L2sqr(c[1], index[s].vec) >= h[i].dist

(* C10: after add(X, v) succeeds, search(v, top_k) with top_k >= 1 returns X
   first, at distance 0. *)
C10_SelfMatchFirst ==
    last.op = "add" /\ ~last.err =>
        \A k \in TopKs :
            k >= 1 =>
                /\ Len(Hits(last.vec, k)) >= 1
                /\ Hits(last.vec, k)[1].page_id = last.page_id
                /\ Hits(last.vec, k)[1].dist = 0

(* the earliest slot (one-based) that holds a vector equal to v *)
EarliestEqual(v) ==
    CHOOSE i \in 1..Len(index) :
        index[i].vec = v /\ \A j \in 1..(i - 1) : index[j].vec # v

(* C10, amended: in a process that only adds, searches and persists, after
   add(X, v) succeeds search(v, top_k) with top_k >= 1 returns first, at
   distance 0, the id supplied with the earliest stored vector equal to v;
   that id is X when no equal vector was added before. *)
C10_SelfMatchEarliestEqual ==
    last.op = "add" /\ ~last.err =>
        \A k \in TopKs :
            k >= 1 =>
                LET h == Hits(last.vec, k)
                    e == EarliestEqual(last.vec)
                IN /\ Len(h) >= 1
                   /\ h[1].dist = 0
                   /\ h[1].slot = e - 1
                   /\ h[1].page_id = index[e].src
                   /\ (e = Len(index) => h[1].page_id = last.page_id)

C10_Witness ==
    /\ last.op = "add" /\ ~last.err
    /\ Len(index) = 2
    /\ index[1].vec = last.vec
    /\ index[1].src # last.page_id

(* the query vectors of the index's width *)
WideQueries == {q \in Queries : IndexAccepts(q)}

(* C11: search on an index that holds no vector returns the empty list for
   every query and every top_k >= 0, and never raises. *)
C11_EmptyIndexReturnsEmpty ==
    last.op = "search" /\ Len(index) = 0 =>
        \A q \in WideQueries, k \in TopKs :
            k >= 0 => ~SearchFails(q, k) /\ Hits(q, k) = <<>>

(* C12: search with top_k <= 0 returns the empty list, without raising,
   whatever the store holds. *)
C12_NonPositiveTopKReturnsEmpty ==
    last.op = "search" /\ Len(index) > 0 =>
        \A q \in WideQueries, k \in TopKs :
            k <= 0 => ~SearchFails(q, k) /\ Hits(q, k) = <<>>

(* C13: search leaves the index, the identifier map and the slot counter as
   they were, so every query gives after a search (by this caller or another)
   what it gave before it. *)
C13_SearchChangesNothing ==
    [][last'.op = "search" =>
          /\ index' = index
          /\ id_map' = id_map
          /\ next_faiss_id' = next_faiss_id
          /\ \A c \in Askable :
                Pairs(SearchHits(index', id_map', c[1], c[2])) = Pairs(Hits(c[1], c[2]))]_vars

C13_Witness ==
    /\ last.op = "search"
    /\ Len(index) = 2
    /\ \E c \in Askable : Len(Hits(c[1], c[2])) = 2 /\ Hits(c[1], c[2])[1].dist = 0

(* C14: a startup hook that finds no artifact and completes leaves an artifact
   behind, whatever the number of embeddings in the table, so that the next
   startup restores. *)
C14_RebuildLeavesArtifact ==
    [][proc = "imported" /\ file = <<>> /\ last'.op = "lifespan" /\ ~last'.err =>
          file' # <<>>]_vars

(* C15: when the startup hook finds neither an artifact nor an embedding it
   completes with an empty index and an empty identifier map, and every
   search (top_k >= 0) returns the empty list. *)
C15_ZeroVectorStartupServesEmpty ==
    last.op = "lifespan" /\ file = <<>> /\ db = <<>> =>
        /\ proc = "ready" /\ ~last.err
        /\ index = <<>> /\ id_map = EmptyMap
        /\ \A q \in WideQueries, k \in TopKs :
              k >= 0 => ~SearchFails(q, k) /\ Hits(q, k) = <<>>

(* C16: every runtime insertion of an embedding of the right width puts the
   vector into the index and writes the artifact, so that the artifact holds
   the vectors of the index when the insertion is done. *)
C16_InsertionAddsAndPersists ==
    [][last'.op = "add_embedding" /\ Len(db'[Len(db')].embedding) = dimension =>
          /\ Len(index') = Len(index) + 1
          /\ index'[Len(index')].vec = db'[Len(db')].embedding
          /\ file' = <<index'>>]_vars

(* C17: a startup hook that finds an artifact it cannot read falls back to
   the rebuild and completes. *)
C17_UnreadableArtifactFallsBack ==
    [][proc = "imported" /\ file # <<>> /\ ~Readable(file) /\ last'.op = "lifespan" =>
          proc' = "ready" /\ ~last'.err]_vars

(* row j of the table is in the index xb, bound to its page id by the map m *)
RowIndexed(xb, m, j) ==
    \E i \in 1..Len(xb) :
        /\ xb[i].vec = db[j].embedding
        /\ (i - 1) \in DOMAIN m
        /\ m[i - 1] = db[j].page_id

(* C18: neither build_from_db nor the startup hook's rebuild is aborted by a
   row whose vector has the wrong length; afterwards every row of the right
   length is in the index, bound to its page id. *)
C18_BadRowNeverAborts ==
    [][\/ last'.op = "build_from_db"
       \/ proc = "imported" /\ file = <<>> /\ last'.op = "lifespan"
       =>
          /\ ~last'.err
          /\ \A j \in 1..Len(db) :
                Len(db[j].embedding) = dimension => RowIndexed(index', id_map', j)]_vars

(* C19: whatever the store held before, after build_from_db the index holds
   exactly the rows of the right length, in table order from slot 0, and the
   identifier map exactly their page ids at those slots. *)
C19_BuildStartsFromEmpty ==
    [][last'.op = "build_from_db" =>
          /\ index' = Stored(ValidRows(db))
          /\ id_map' = MapRows(EmptyMap, 0, ValidRows(db))]_vars

(* C20: in one process the slot counter never decreases, an entry of the
   identifier map is never rebound, and a successful add puts its vector at a
   position of the index that no earlier add was given: the positions given
   so far are those below the counter, so the new one is not below it. *)
C20_SlotsNeverReused ==
    [][/\ next_faiss_id' >= next_faiss_id
       /\ \A s \in DOMAIN id_map : s \in DOMAIN id_map' /\ id_map'[s] = id_map[s]
       /\ (last'.op = "add" /\ ~last'.err /\ Len(index') = Len(index) + 1 =>
              Len(index) >= next_faiss_id)]_vars

(* the ranks of index.search(q, k) whose label has an identifier-map entry *)
Mapped(q, k) ==
    {r \in 1..k : /\ IndexSearch(index, q, k)[r].idx # -1
                  /\ IndexSearch(index, q, k)[r].idx \in DOMAIN id_map}

(* the rank at which index.search(q, k) reports slot s *)
RankOf(q, k, s) == CHOOSE r \in 1..k : IndexSearch(index, q, k)[r].idx = s

(* C21: search leaves out the slots that have no identifier-map entry and
   returns, without raising and in the order the index reports them, one pair
   for every other slot, carrying that slot's map entry and distance. *)
C21_OrphanSlotsDropped ==
    last.op = "search" =>
        \A c \in Askable :
            LET h == Hits(c[1], c[2])
                raw == IndexSearch(index, c[1], c[2])
            IN /\ Len(h) = Cardinality(Mapped(c[1], c[2]))
               /\ \A r \in Mapped(c[1], c[2]) :
                     \E i \in 1..Len(h) :
                         /\ h[i].slot = raw[r].idx
                         /\ h[i].page_id = id_map[raw[r].idx]
                         /\ h[i].dist = raw[r].dist
               /\ \A i, j \in 1..Len(h) :
                     i < j => RankOf(c[1], c[2], h[i].slot) < RankOf(c[1], c[2], h[j].slot)

C21_Witness ==
    /\ last.op = "search"
    /\ \E c \in Askable :
          LET raw == IndexSearch(index, c[1], c[2]) IN
          /\ c[2] = 2
          /\ raw[1].idx # -1 /\ raw[1].idx \notin DOMAIN id_map
          /\ raw[2].idx \in DOMAIN id_map
          /\ Len(Hits(c[1], c[2])) = 1

(* C22: the startup hook run a second time, the table and the artifact being
   as the first run left them, leaves the index, the identifier map, the slot
   counter and the artifact as they were, and every search returns what it
   returned before. *)
C22_StartupIdempotent ==
    [][last.op = "lifespan" /\ last'.op = "lifespan" =>
          /\ index' = index
          /\ id_map' = id_map
          /\ next_faiss_id' = next_faiss_id
          /\ file' = file
          /\ \A c \in Askable :
                Pairs(SearchHits(index', id_map', c[1], c[2])) = Pairs(Hits(c[1], c[2]))]_vars

(* what calls of add, and of build_from_db, can do to the store in one step:
   put vectors after those the index holds and as many new entries into the
   map, stepping the counter once for each *)
GrownByAdds ==
    /\ Len(index') >= Len(index)
    /\ SubSeq(index', 1, Len(index)) = index
    /\ \A s \in DOMAIN id_map : s \in DOMAIN id_map' /\ id_map'[s] = id_map[s]
    /\ Cardinality(DOMAIN id_map') - MapSize = Len(index') - Len(index)
    /\ next_faiss_id' - next_faiss_id = Len(index') - Len(index)

(* C23: a step of the startup hook or of a request handler changes the index,
   the identifier map and the slot counter only by what add and build_from_db
   do to them. *)
C23_StoreChangesOnlyByAdd ==
    [][last'.op \in {"lifespan", "add_embedding"} => GrownByAdds]_vars

(* C24: a /collect request whose embedding could not be had, or has the wrong
   length, still stores its page and answers with success. *)
C24_CollectSurvivesBadEmbedding ==
    last.op = "collect_content" /\ Len(last.vec) # dimension =>
        ~last.err /\ last.page_id \in PageIds

(* C25: when every pair was inserted and writing the artifact fails, the
   inserted vectors and their map entries stay in memory and the startup hook
   completes all the same. *)
C25_PersistFailureNotFatal ==
    [][/\ proc = "imported" /\ file = <<>>
       /\ db # <<>> /\ ValidRows(db) = db
       /\ last'.op = "lifespan"
       =>
          /\ index' = Stored(db)
          /\ id_map' = MapRows(EmptyMap, 0, db)
          /\ next_faiss_id' = Len(db)
          /\ proc' = "ready"]_vars

(* the index holds v under page id p, and the map binds its slot to p *)
Holds(p, v) ==
    \E i \in 1..Len(index) :
        index[i].vec = v /\ index[i].src = p /\ id_map[i - 1] = p

(* C26: with three vectors in the index, a unit vector bound to 1, a vector
   0.01 away from it bound to 2 and an orthogonal unit vector bound to 3,
   whatever the order they were added in, search with the first vector and
   top_k = 3 returns 1, then 2, then 3. *)
C26_NearAboveOrthogonal ==
    /\ last.op = "search"
    /\ Len(index) = 3
    /\ Holds(1, ScenarioBase) /\ Holds(2, ScenarioNear) /\ Holds(3, ScenarioOrth)
    => Ids(Hits(ScenarioBase, 3)) = <<1, 2, 3>>

C26_Witness ==
    /\ last.op = "search"
    /\ Len(index) = 3
    /\ Holds(1, ScenarioBase) /\ Holds(2, ScenarioNear) /\ Holds(3, ScenarioOrth)
    /\ index[1].vec = ScenarioOrth /\ index[2].vec = ScenarioNear
    /\ Hits(ScenarioBase, 3)[2].dist = 1

(* C27: on a table whose rows all have the right length, for every query
   embedding and top_k the semantic search endpoint returns the page ids, in
   order, that FaissIndex.search returns on the index the startup hook
   prepared. *)
C27_EndpointAnswersFromIndex ==
    last.op = "semantic_search" /\ ValidRows(db) = db =>
        \A c \in Askable :
            /\ ~SemanticSearchFails(db, c[1])
            /\ crud_semantic_search(db, c[1], c[2]) = Ids(Hits(c[1], c[2]))

(* no call of add is in flight *)
Quiet == InFlight = {}

(* some slot's map entry is missing or is not the id its vector came with, or
   the map and the index differ in size *)
Unbound ==
    \/ MapSize # Len(index)
    \/ \E i \in 1..Len(index) :
          (i - 1) \notin DOMAIN id_map \/ id_map[i - 1] # index[i].src

(* C28: calls of add that overlap can leave, when all have returned, a slot
   whose map entry is not the id inserted with its vector, or a map that
   differs in size from the index; calls that do not overlap never do. *)
C28_OnlyOverlapBreaksBinding == Quiet /\ Unbound => calls.overlapped

C28_Witness ==
    /\ Quiet /\ calls.overlapped
    /\ Len(index) = 2 /\ MapSize = 2
    /\ id_map[0] # index[1].src
    /\ id_map[1] # index[2].src

(* C29: between operations the slot counter equals the number of vectors in
   the index, so that the key add writes the page id under is the position
   the index gives the vector it appends. *)
C29_CounterIsVectorCount == Up => next_faiss_id = Len(index)

(* the store as the constructor leaves it *)
Fresh == index = <<>> /\ id_map = EmptyMap /\ next_faiss_id = 0

(* C30: on a freshly constructed store the startup hook's rebuild (reset, then
   add per row of the table) does not raise and ends with the index, the
   identifier map and the slot counter that build_from_db ends with on the
   same table, whatever the rows, wrong lengths and the empty table included. *)
C30_RebuildsAgree ==
    [][Fresh /\ proc = "imported" /\ file = <<>> /\ last'.op = "lifespan" =>
          /\ ~last'.err
          /\ index' = index \o Stored(ValidRows(db))
          /\ id_map' = MapRows(id_map, next_faiss_id, ValidRows(db))
          /\ next_faiss_id' = next_faiss_id + Len(ValidRows(db))]_vars

====
